---- MODULE Spec2Model ----
(***************************************************************************)
(* The WebSocketClient singleton session and the useMessageSender hook of  *)
(* src/custom-hooks.js, as a state machine.                                *)
(*                                                                         *)
(* Every JavaScript task (a transport event handler, the continuation of   *)
(* the suspended onWsMessage, a React render or effect flush, a call of    *)
(* the public API) is one action: JavaScript runs each to completion.      *)
(* The handlers are operators from a state record to a state record, so    *)
(* that an action is the whole handler with every call it makes.           *)
(***************************************************************************)
EXTENDS Integers, Sequences, FiniteSets, TLC

\* Bounds of the exploration.
MaxSockets == 2   \* WebSocket objects ever constructed (initSocket calls)
MaxMsgs == 2      \* sendMessage calls of the component
MaxFrames == 2    \* inbound frames the transport delivers
MaxObjects == 2   \* evaluations of new WebSocketClient()
MaxCloses == 2    \* calls of WebSocketClient.close() by a direct caller

VARIABLES
  instance,      \* WebSocketClient.instance: an object, 0 = null (line 79)
  socket,        \* this.socket: index into sockets, 0 = undefined (line 75)
  isLoggedIn,    \* this.isLoggedIn                                (line 76)
  isUserLogout,  \* this.isUserLogout                              (line 78)
  subscribed,    \* ws.onMessage etc. are assigned                 (lines 15-30)
  sockets,       \* every WebSocket object constructed so far, in order
  wire,          \* every payload handed to socket.send, in time order
  pending,       \* onWsMessage invocations suspended at the await (line 121)
  phase,         \* where the component using useMessageSender is
  messageQueue,  \* messageQueue.current                           (line 9)
  message,       \* the hook's message state, 0 = null              (line 8)
  forwarded,     \* history: the frames passed to this.onMessage, by number
  enqueued,      \* history: messages pushed on messageQueue
  dropped,       \* history: frames whose handler threw while decoding
  rejected,      \* history: frames decoded as a logon result with a non-zero code
  loggedOffs,    \* history: frames decoded as a logged-off notice
  nextId,        \* sendMessage calls so far
  nFrames,       \* frames delivered so far
  userClosed,    \* history: WebSocketClient.close() has been called
  closeCalls,    \* history: calls of WebSocketClient.close() so far
  objects,       \* objects allocated by new WebSocketClient() so far
  handles,       \* history: the objects that getInstance() and new returned
  ctorInits,     \* history: initSocket calls made by the constructor
  sendResult,    \* what the last direct call of send returned
  uws            \* the useWebSocket hook of src/unnamed/part_001, as a record

vars == <<instance, socket, isLoggedIn, isUserLogout, subscribed, sockets, wire,
          pending, phase, messageQueue, message, forwarded, enqueued, dropped,
          rejected, loggedOffs, nextId, nFrames, userClosed, closeCalls,
          objects, handles, ctorInits, sendResult, uws>>

----------------------------------------------------------------------------
\* Data

\* WebSocket.readyState
ReadyStates == {"CONNECTING", "OPEN", "CLOSING", "CLOSED"}

\* resultCode 0 is success; 7 stands for every non-zero code.
ResultCodes == {0, 7}

\* A decoded WebAPI.ServerMsg, by the parts the handler inspects; ok = FALSE is
\* a frame that ServerMsg.decode (or the arrayBuffer read) rejects.
Frames ==
  { [ok |-> TRUE, logonResult |-> lr, resultCode |-> rc, loggedOff |-> lo] :
      lr \in BOOLEAN, rc \in ResultCodes, lo \in BOOLEAN }

BadFrame == [ok |-> FALSE, logonResult |-> FALSE, resultCode |-> 0, loggedOff |-> FALSE]

\* The frames the server sends: a logon result with either code, a logged-off
\* notice, any other payload (resultCode is then the decoder's default), and
\* a frame that does not decode.
InboundFrames ==
  {f \in Frames : IF f.logonResult THEN ~f.loggedOff ELSE f.resultCode = 0}
    \cup {BadFrame}

\* WebAPI.ClientMsg: the logon message, or the id-th application message.
LogonMsg == [logon |-> TRUE, id |-> 0]
AppMsg(id) == [logon |-> FALSE, id |-> id]

\* WebAPI.ClientMsg.encode(message).finish(): the codec is opaque, the bytes
\* determine the message.
encode(m) == <<"ClientMsg", m.logon, m.id>>
IsLogonBytes(b) == b[2]
IsAppBytes(b) == ~b[2]

\* new WebSocket(url). Besides readyState: closedBy is who called close() on it
\* ("none": nobody, the close came from the transport), logonOk that a logon
\* result with resultCode 0 that came on it has been processed.
NewSocket == [readyState |-> "CONNECTING", closedBy |-> "none", logonOk |-> FALSE]

\* The state as one record, for the handlers below.
St == [instance |-> instance, socket |-> socket, isLoggedIn |-> isLoggedIn,
       isUserLogout |-> isUserLogout, subscribed |-> subscribed,
       sockets |-> sockets, wire |-> wire, messageQueue |-> messageQueue,
       message |-> message, forwarded |-> forwarded, enqueued |-> enqueued,
       dropped |-> dropped, rejected |-> rejected, loggedOffs |-> loggedOffs,
       userClosed |-> userClosed, closeCalls |-> closeCalls,
       objects |-> objects, handles |-> handles, ctorInits |-> ctorInits,
       sendResult |-> sendResult, uws |-> uws]

Set(st) ==
  /\ instance' = st.instance
  /\ socket' = st.socket
  /\ isLoggedIn' = st.isLoggedIn
  /\ isUserLogout' = st.isUserLogout
  /\ subscribed' = st.subscribed
  /\ sockets' = st.sockets
  /\ wire' = st.wire
  /\ messageQueue' = st.messageQueue
  /\ message' = st.message
  /\ forwarded' = st.forwarded
  /\ enqueued' = st.enqueued
  /\ dropped' = st.dropped
  /\ rejected' = st.rejected
  /\ loggedOffs' = st.loggedOffs
  /\ userClosed' = st.userClosed
  /\ closeCalls' = st.closeCalls
  /\ objects' = st.objects
  /\ handles' = st.handles
  /\ ctorInits' = st.ctorInits
  /\ sendResult' = st.sendResult
  /\ uws' = st.uws

----------------------------------------------------------------------------
\* WebSocketClient

\* this.socket?.readyState === WebSocket.OPEN
socketOpen(st) == st.socket # 0 /\ st.sockets[st.socket].readyState = "OPEN"

\* WebSocket.close(): a no-op on a closing or closed socket.
wsClose(sk, by) ==
  IF sk.readyState \in {"CONNECTING", "OPEN"}
  THEN [sk EXCEPT !.readyState = "CLOSING", !.closedBy = by]
  ELSE sk

initSocket(st) ==
  [st EXCEPT !.sockets = Append(@, NewSocket), !.socket = Len(st.sockets) + 1]

closeSocket(st, by) ==
  IF st.socket # 0
  THEN [st EXCEPT !.sockets[st.socket] = wsClose(@, by), !.socket = 0]
  ELSE st

\* send with a seeded fault: any held socket is used, whatever its readyState.
sendWhenHeld(st, m) ==
  IF st.socket # 0
  THEN [st EXCEPT !.wire = Append(@, [sock |-> st.socket, bytes |-> encode(m)])]
  ELSE st

send(st, m) ==
  IF socketOpen(st)
  THEN [st EXCEPT !.wire = Append(@, [sock |-> st.socket, bytes |-> encode(m)])]
  ELSE st   \* returns a ConnectionNotReadyError value

\* isReady with a seeded fault: the connection's readyState is not consulted.
isReadyIgnoresSocket(st) == st.isLoggedIn

\* get isReady(): this.isLoggedIn && this.socket?.readyState === WebSocket.OPEN
isReady(st) == st.isLoggedIn /\ socketOpen(st)

initiateLogon(st) == send(st, LogonMsg)

\* The hook's ws.onOpen, ws.onClose and ws.onError do nothing or log.
hookOnOpen(st) == st

\* hookOnClose with a seeded fault: the cleanup on close empties the queue.
hookOnCloseClearsQueue(st) == [st EXCEPT !.messageQueue = <<>>]

hookOnClose(st) == st
hookOnError(st) == st

\* The hook's ws.onMessage: setMessage(msg). The message state holds the
\* decoded object, known here by the number of its frame.
hookOnMessage(st, p) == [st EXCEPT !.message = p.n]

\* onWsOpen with a seeded fault: the logon is not sent on open.
onWsOpenWithoutLogon(st) == IF st.subscribed THEN hookOnOpen(st) ELSE st

onWsOpen(st) ==
  LET s1 == initiateLogon(st)
  IN IF s1.subscribed THEN hookOnOpen(s1) ELSE s1

\* decodeThrows with a seeded fault: a decode failure tears the connection down.
decodeThrowsAndCloses(st, p) ==
  closeSocket([st EXCEPT !.dropped = @ \cup {p.n}], "decode")

\* ServerMsg.decode throws inside the async handler: the promise it returned
\* is rejected and the rest of the handler does not run.
decodeThrows(st, p) == [st EXCEPT !.dropped = @ \cup {p.n}]

\* logonFailed with a seeded fault: the rejection is logged, the socket stays open.
logonFailedStaysOpen(st, p) == [st EXCEPT !.rejected = @ \cup {p.n}]

\* Lines 130-133: the logon was rejected, the current socket is closed.
logonFailed(st, p) ==
  LET s1 == [st EXCEPT !.rejected = @ \cup {p.n}]
  IN IF s1.socket # 0
     THEN [s1 EXCEPT !.sockets[s1.socket] = wsClose(@, "logonFail")]
     ELSE s1

\* Lines 125-128: the logon was accepted. (logonOk of the socket the frame
\* came from is history, not a field of the program.)
logonSucceeded(st, p) ==
  [st EXCEPT !.isLoggedIn = TRUE, !.sockets[p.sock].logonOk = TRUE]

\* loggedOff with a seeded fault: a logged-off notice closes the connection.
loggedOffCloses(st, p) ==
  closeSocket([st EXCEPT !.loggedOffs = @ \cup {p.n}], "loggedOff")

\* Lines 136-138: a logged-off notice is logged.
loggedOff(st, p) == [st EXCEPT !.loggedOffs = @ \cup {p.n}]

\* forward with a seeded fault: logon results are kept from the subscriber.
forwardHidesLogonResult(st, p) ==
  IF st.subscribed /\ ~p.frame.logonResult
  THEN hookOnMessage([st EXCEPT !.forwarded = Append(@, p.n)], p)
  ELSE st

\* Line 140: if (this.onMessage) this.onMessage(msg)
forward(st, p) ==
  IF st.subscribed
  THEN hookOnMessage([st EXCEPT !.forwarded = Append(@, p.n)], p)
  ELSE st

\* The part of onWsMessage after the await, for the suspended invocation p.
onWsMessage(st, p) ==
  IF ~p.frame.ok THEN decodeThrows(st, p)
  ELSE
    LET msg == p.frame
        s1 == IF msg.logonResult /\ msg.resultCode = 0
              THEN logonSucceeded(st, p)
              ELSE st
        s2 == IF msg.logonResult /\ msg.resultCode # 0
              THEN logonFailed(s1, p)
              ELSE s1
        s3 == IF msg.loggedOff THEN loggedOff(s2, p) ELSE s2
    IN forward(s3, p)

\* onWsClose with a seeded fault: the handler does not reconnect.
onWsCloseStays(st) ==
  IF ~st.isUserLogout
  THEN LET s1 == closeSocket(st, "onWsClose")
       IN IF s1.subscribed THEN hookOnClose(s1) ELSE s1
  ELSE st

onWsClose(st) ==
  IF ~st.isUserLogout
  THEN LET s1 == closeSocket(st, "onWsClose")
           s2 == IF s1.subscribed THEN hookOnClose(s1) ELSE s1
       IN initSocket(s2)
  ELSE st

\* onWsError with a seeded fault: the error handler reconnects too.
onWsErrorReconnects(st) ==
  initSocket(IF st.subscribed THEN hookOnError(st) ELSE st)

onWsError(st) == IF st.subscribed THEN hookOnError(st) ELSE st

\* What send returns: nothing after socket.send, else the error as a value.
sendReturns(st) ==
  IF socketOpen(st) THEN "undefined" ELSE "ConnectionNotReadyError"

\* The value of the expression new WebSocketClient(): the constructor's
\* return of the existing instance replaces the fresh object.
newResult(st) == IF st.instance # 0 THEN st.instance ELSE st.objects + 1

\* construct with a seeded fault: the test for an existing instance is missing.
constructAlways(st) ==
  LET this == st.objects + 1
  IN initSocket([st EXCEPT !.objects = this, !.instance = this,
                           !.handles = @ \cup {this}, !.ctorInits = @ + 1])

\* new WebSocketClient(): the constructor runs on a fresh object `this`.
construct(st) ==
  LET this == st.objects + 1
      s1 == [st EXCEPT !.objects = this, !.handles = @ \cup {newResult(st)}]
  IN IF s1.instance # 0
     THEN s1
     ELSE initSocket([s1 EXCEPT !.instance = this, !.ctorInits = @ + 1])

getInstance(st) ==
  LET s1 == IF st.instance = 0
            THEN [construct(st) EXCEPT !.instance = newResult(st)]
            ELSE st
  IN [s1 EXCEPT !.handles = @ \cup {s1.instance}]

\* close with a seeded fault: close() starts a new connection at once.
closeReconnects(st) ==
  initSocket(closeSocket([st EXCEPT !.userClosed = TRUE, !.closeCalls = @ + 1],
                         "user"))

close(st) ==
  closeSocket([st EXCEPT !.userClosed = TRUE, !.closeCalls = @ + 1], "user")

----------------------------------------------------------------------------
\* useMessageSender

\* wsClient of the render whose closures are current: null until the
\* re-render that follows setWsClient(ws).
wsClient == phase \in {"rerendered", "settled"}

sendMessage(st, hasClient, m) ==
  IF ~hasClient \/ isReady(st) = FALSE
  THEN [st EXCEPT !.messageQueue = Append(@, m), !.enqueued = Append(@, m.id)]
  ELSE send(st, m)

\* dequeueLoop with a seeded fault: pop() from the tail instead of shift() from the head.
RECURSIVE dequeueLoopPop(_, _)
dequeueLoopPop(st, hasClient) ==
  IF Len(st.messageQueue) > 0
  THEN LET msg == st.messageQueue[Len(st.messageQueue)]
           s1 == [st EXCEPT !.messageQueue = SubSeq(@, 1, Len(@) - 1)]
       IN dequeueLoopPop(sendMessage(s1, hasClient, msg), hasClient)
  ELSE st

\* dequeueLoop with a seeded fault: an if in place of the while.
dequeueLoopOnce(st, hasClient) ==
  IF Len(st.messageQueue) > 0
  THEN sendMessage([st EXCEPT !.messageQueue = Tail(@)], hasClient,
                   Head(st.messageQueue))
  ELSE st

\* while (messageQueue.current.length > 0) { shift(); sendMessage(msg) }
RECURSIVE dequeueLoop(_, _)
dequeueLoop(st, hasClient) ==
  IF Len(st.messageQueue) > 0
  THEN LET msg == Head(st.messageQueue)
           s1 == [st EXCEPT !.messageQueue = Tail(@)]
       IN dequeueLoop(sendMessage(s1, hasClient, msg), hasClient)
  ELSE st

\* The effect with dependency [wsClient].
flushEffect(st, hasClient) ==
  IF hasClient /\ isReady(st) /\ Len(st.messageQueue) > 0
  THEN dequeueLoop(st, hasClient)
  ELSE st

\* The effect with dependency []: getInstance, setWsClient, the four callbacks.
mountEffect(st) == [getInstance(st) EXCEPT !.subscribed = TRUE]

----------------------------------------------------------------------------
\* useWebSocket (src/unnamed/part_001): a second hook, which owns its
\* WebSocket itself. Its state is the record uws; its handlers are operators
\* from such a record h to such a record. The handlers of a WebSocket are
\* closures of the render in which the connect effect created it: they see
\* that render's socket, loginDetails and reLogonCount (c-fields of the
\* WebSocket's record), while ws and messageQueue.current are live objects.

\* The hook after its first render: socket = null, loginDetails = null,
\* reLogonCount = 1, and no effect run yet (effCount, effSocket: the
\* dependency values at the last run of each effect). History: loggedOffs,
\* the frames decoded as a logged-off notice; enqueued, the ids of the
\* messages pushed on the queue.
UwsInit ==
  [socket |-> 0, loginDetails |-> FALSE, reLogonCount |-> 1, message |-> 0,
   messageQueue |-> <<>>, wss |-> <<>>, wire |-> <<>>, pending |-> {},
   effCount |-> 0, effSocket |-> -1, nMsgs |-> 0, nFrames |-> 0,
   loggedOffs |-> {}, enqueued |-> {}]

\* socket && socket.readyState === WebSocket.OPEN, for the socket sk of a closure
uwsSocketOpen(h, sk) == sk # 0 /\ h.wss[sk].readyState = "OPEN"

\* sendMessage of the render whose socket is sk (lines 81-95)
uwsSendMessage(h, sk, m) ==
  IF ~uwsSocketOpen(h, sk)
  THEN [h EXCEPT !.messageQueue = Append(@, m), !.enqueued = @ \cup {m.id}]
  ELSE [h EXCEPT !.wire = Append(@, [sock |-> sk, bytes |-> encode(m)])]

\* login of the render whose socket is sk and whose loginDetails is ld
\* (lines 97-111)
uwsLogin(h, sk, ld) == IF ~ld THEN uwsSendMessage(h, sk, LogonMsg) ELSE h

\* ws.onopen of the k-th WebSocket (lines 18-22): login(); setSocket(ws)
uwsOnOpen(h, k) ==
  [uwsLogin(h, h.wss[k].cSocket, h.wss[k].cLoginDetails) EXCEPT !.socket = k]

\* Lines 42-45: a logged-off notice is logged and ws.close() is called.
uwsLoggedOff(h, p) ==
  [h EXCEPT !.loggedOffs = @ \cup {p.n},
            !.wss[p.sock] = wsClose(@, "loggedOff")]

\* ws.onmessage after the await (lines 26-48); a decode failure is caught.
uwsOnMessage(h, p) ==
  IF ~p.frame.ok THEN h
  ELSE
    LET msg == p.frame
        s0 == [h EXCEPT !.message = p.n]
        s1 == IF msg.logonResult /\ msg.resultCode = 0
              THEN [s0 EXCEPT !.loginDetails = TRUE, !.wss[p.sock].logonOk = TRUE]
              ELSE s0
        s2 == IF msg.logonResult /\ msg.resultCode # 0
              THEN [s1 EXCEPT !.wss[p.sock] = wsClose(@, "logonFail")]
              ELSE s1
    IN IF msg.loggedOff THEN uwsLoggedOff(s2, p) ELSE s2

\* ws.onclose of the k-th WebSocket (lines 51-57)
uwsOnClose(h, k) ==
  [h EXCEPT !.socket = 0, !.loginDetails = FALSE,
            !.reLogonCount = h.wss[k].cCount + 1]

\* The effect with dependency [reLogonCount] (lines 13-67): the cleanup of
\* its previous run closes that run's WebSocket, then a new one is created.
uwsConnectEffect(h) ==
  LET n == Len(h.wss)
      s1 == IF n > 0 THEN [h EXCEPT !.wss[n] = wsClose(@, "cleanup")] ELSE h
      ws == [readyState |-> "CONNECTING", closedBy |-> "none", logonOk |-> FALSE,
             cSocket |-> h.socket, cLoginDetails |-> h.loginDetails,
             cCount |-> h.reLogonCount]
  IN [s1 EXCEPT !.wss = Append(@, ws), !.effCount = h.reLogonCount]

\* while (messageQueue.current.length > 0) { shift(); sendMessage(msg) }
RECURSIVE uwsDequeueLoop(_)
uwsDequeueLoop(h) ==
  IF Len(h.messageQueue) > 0
  THEN uwsDequeueLoop(uwsSendMessage([h EXCEPT !.messageQueue = Tail(@)],
                                     h.socket, Head(h.messageQueue)))
  ELSE h

\* The effect with dependency [socket] (lines 69-79)
uwsFlushEffect(h) ==
  LET r == IF uwsSocketOpen(h, h.socket) /\ Len(h.messageQueue) > 0
           THEN uwsDequeueLoop(h)
           ELSE h
  IN [r EXCEPT !.effSocket = h.socket]

\* An effect whose dependency changed since its last run is due.
uwsEffectsDue(h) == h.effCount # h.reLogonCount \/ h.effSocket # h.socket

\* The effects of a commit, in the order of their declaration.
uwsEffects(h) ==
  LET a == IF h.effCount # h.reLogonCount THEN uwsConnectEffect(h) ELSE h
  IN IF a.effSocket # a.socket THEN uwsFlushEffect(a) ELSE a

----------------------------------------------------------------------------
\* Initial state: nothing constructed, the component not rendered.

\* The payloads handed to socket.send of socket s, in order.
sent(s) == SelectSeq(wire, LAMBDA w : w.sock = s)

Init ==
  /\ instance = 0
  /\ socket = 0
  /\ isLoggedIn = FALSE
  /\ isUserLogout = FALSE
  /\ subscribed = FALSE
  /\ sockets = <<>>
  /\ wire = <<>>
  /\ pending = {}
  /\ phase = "unmounted"
  /\ messageQueue = <<>>
  /\ message = 0
  /\ forwarded = <<>>
  /\ enqueued = <<>>
  /\ dropped = {}
  /\ rejected = {}
  /\ loggedOffs = {}
  /\ nextId = 0
  /\ nFrames = 0
  /\ userClosed = FALSE
  /\ closeCalls = 0
  /\ objects = 0
  /\ handles = {}
  /\ ctorInits = 0
  /\ sendResult = "none"
  /\ uws = UwsInit

----------------------------------------------------------------------------
\* Tasks

\* Some caller other than the hook obtains the singleton first.
GetInstance ==
  /\ instance = 0
  /\ Set(getInstance(St))
  /\ UNCHANGED <<pending, phase, nextId, nFrames>>

\* First render of the component: wsClient = null, both effects scheduled.
Render ==
  /\ phase = "unmounted"
  /\ phase' = "rendered"
  /\ UNCHANGED <<instance, socket, isLoggedIn, isUserLogout, subscribed, sockets,
                 wire, pending, messageQueue, message, forwarded, enqueued,
                 dropped, rejected, loggedOffs, nextId, nFrames, userClosed,
                 closeCalls, objects, handles, ctorInits, sendResult, uws>>

\* The effects of the first render, in order: the mount effect, then the
\* flush effect with wsClient = null.
MountEffects ==
  /\ phase = "rendered"
  /\ Set(flushEffect(mountEffect(St), FALSE))
  /\ phase' = "effects"
  /\ UNCHANGED <<pending, nextId, nFrames>>

\* The re-render caused by setWsClient(ws): wsClient = ws from here on.
Rerender ==
  /\ phase = "effects"
  /\ phase' = "rerendered"
  /\ UNCHANGED <<instance, socket, isLoggedIn, isUserLogout, subscribed, sockets,
                 wire, pending, messageQueue, message, forwarded, enqueued,
                 dropped, rejected, loggedOffs, nextId, nFrames, userClosed,
                 closeCalls, objects, handles, ctorInits, sendResult, uws>>

\* The flush effect runs again because wsClient changed; wsClient never
\* changes after that, so this is its last run.
FlushEffect ==
  /\ phase = "rerendered"
  /\ Set(flushEffect(St, TRUE))
  /\ phase' = "settled"
  /\ UNCHANGED <<pending, nextId, nFrames>>

\* The component calls the sendMessage of its current render.
SendMessage ==
  /\ phase # "unmounted"
  /\ nextId < MaxMsgs
  /\ nextId' = nextId + 1
  /\ Set(sendMessage(St, wsClient, AppMsg(nextId + 1)))
  /\ UNCHANGED <<pending, phase, nFrames>>

\* The user calls WebSocketClient.close().
UserClose ==
  /\ instance # 0
  /\ ~userClosed
  /\ Set(close(St))
  /\ UNCHANGED <<pending, phase, nextId, nFrames>>

\* The open event of socket s.
TransportOpen(s) ==
  /\ sockets[s].readyState = "CONNECTING"
  /\ Set(onWsOpen([St EXCEPT !.sockets[s].readyState = "OPEN"]))
  /\ UNCHANGED <<pending, phase, nextId, nFrames>>

\* A message event of socket s: onWsMessage starts and suspends at the await.
\* Nothing has looked at the frame's bytes yet. Frames come on an open
\* connection, and on one that close() was called on after it had opened (it
\* has carried the logon then), until its closing handshake ends.
TransportMessage(s) ==
  /\ \/ sockets[s].readyState = "OPEN"
     \/ sockets[s].readyState = "CLOSING" /\ sent(s) # <<>>
  /\ nFrames < MaxFrames
  /\ nFrames' = nFrames + 1
  /\ pending' = pending \cup {[n |-> nFrames + 1, sock |-> s]}
  /\ UNCHANGED <<instance, socket, isLoggedIn, isUserLogout, subscribed, sockets,
                 wire, phase, messageQueue, message, forwarded, enqueued, dropped,
                 rejected, loggedOffs, nextId, userClosed, closeCalls, objects,
                 handles, ctorInits, sendResult, uws>>

\* The read of a frame's data completes and its handler resumes; f is what
\* the bytes turn out to be. Reads of different frames complete in any order.
ResumeMessage(p, f) ==
  /\ Set(onWsMessage(St, [n |-> p.n, sock |-> p.sock, frame |-> f]))
  /\ pending' = pending \ {p}
  /\ UNCHANGED <<phase, nextId, nFrames>>

\* The task that ends socket s: readyState becomes CLOSED and the close event
\* is fired. The connection failed, the peer or the network closed it, or the
\* closing handshake started by close() ended.
TransportClose(s) ==
  /\ sockets[s].readyState # "CLOSED"
  /\ Len(sockets) < MaxSockets
  /\ Set(onWsClose([St EXCEPT !.sockets[s].readyState = "CLOSED"]))
  /\ UNCHANGED <<pending, phase, nextId, nFrames>>

\* The same task when the connection was failed: the error event is fired
\* first, the close event right after it.
TransportErrorClose(s) ==
  /\ sockets[s].readyState # "CLOSED"
  /\ Len(sockets) < MaxSockets
  /\ Set(onWsClose(onWsError([St EXCEPT !.sockets[s].readyState = "CLOSED"])))
  /\ UNCHANGED <<pending, phase, nextId, nFrames>>

Next ==
  \/ GetInstance
  \/ Render
  \/ MountEffects
  \/ Rerender
  \/ FlushEffect
  \/ SendMessage
  \/ UserClose
  \/ \E s \in 1..Len(sockets) : TransportOpen(s)
  \/ \E s \in 1..Len(sockets) : TransportMessage(s)
  \/ \E p \in pending, f \in InboundFrames : ResumeMessage(p, f)
  \/ \E s \in 1..Len(sockets) : TransportClose(s)
  \/ \E s \in 1..Len(sockets) : TransportErrorClose(s)

Spec == Init /\ [][Next]_vars

----------------------------------------------------------------------------
\* The client used directly, without the hook: its public surface is
\* getInstance, the constructor, send, close and the callback slots.

\* A caller evaluates new WebSocketClient().
ClientNew ==
  /\ objects < MaxObjects
  /\ Set(construct(St))
  /\ UNCHANGED <<pending, phase, nextId, nFrames>>

\* A caller calls WebSocketClient.getInstance().
ClientGetInstance ==
  /\ instance # 0 \/ objects < MaxObjects
  /\ Set(getInstance(St))
  /\ UNCHANGED <<pending, phase, nextId, nFrames>>

\* A caller calls send on the instance.
ClientSend ==
  /\ instance # 0
  /\ nextId < MaxMsgs
  /\ nextId' = nextId + 1
  /\ Set([send(St, AppMsg(nextId + 1)) EXCEPT !.sendResult = sendReturns(St)])
  /\ UNCHANGED <<pending, phase, nFrames>>

\* A caller calls close on the instance, any number of times.
ClientClose ==
  /\ instance # 0
  /\ closeCalls < MaxCloses
  /\ Set(close(St))
  /\ UNCHANGED <<pending, phase, nextId, nFrames>>

\* The frames of this specification are the server's answers to the logon:
\* no callback is assigned, so other frames would change nothing.
LogonResults == {f \in InboundFrames : f.ok /\ f.logonResult}

NextClient ==
  \/ ClientNew
  \/ ClientGetInstance
  \/ ClientSend
  \/ ClientClose
  \/ \E s \in 1..Len(sockets) : TransportOpen(s)
  \/ \E s \in 1..Len(sockets) : TransportMessage(s)
  \/ \E p \in pending, f \in LogonResults : ResumeMessage(p, f)
  \/ \E s \in 1..Len(sockets) : TransportClose(s)
  \/ \E s \in 1..Len(sockets) : TransportErrorClose(s)

SpecClient == Init /\ [][NextClient]_vars

----------------------------------------------------------------------------
\* The client against a server that accepts every logon, with connections
\* the transport may drop at any time; the caller only creates the instance
\* and sends.

\* The answer of this server to a logon.
LogonAccept ==
  [ok |-> TRUE, logonResult |-> TRUE, resultCode |-> 0, loggedOff |-> FALSE]

\* The open event of the s-th socket, once it exists.
Opens(s) == s \in 1..Len(sockets) /\ TransportOpen(s)

\* The server's answer to the logon it received on socket s arrives: a
\* message event, at which onWsMessage starts and suspends.
ServerAnswersLogon(s) ==
  /\ s \in 1..Len(sockets)
  /\ sockets[s].readyState = "OPEN"
  /\ \E i \in 1..Len(wire) : wire[i] = [sock |-> s, bytes |-> encode(LogonMsg)]
  /\ ~sockets[s].logonOk
  /\ \A p \in pending : p.sock # s
  /\ nFrames' = nFrames + 1
  /\ pending' = pending \cup {[n |-> nFrames + 1, sock |-> s]}
  /\ UNCHANGED <<instance, socket, isLoggedIn, isUserLogout, subscribed, sockets,
                 wire, phase, messageQueue, message, forwarded, enqueued, dropped,
                 rejected, loggedOffs, nextId, userClosed, closeCalls, objects,
                 handles, ctorInits, sendResult, uws>>

\* The read of the answer completes and its handler resumes.
AnswerRead == \E p \in pending : ResumeMessage(p, LogonAccept)

NextLive ==
  \/ GetInstance
  \/ ClientSend
  \/ \E s \in 1..MaxSockets : Opens(s)
  \/ \E s \in 1..MaxSockets : ServerAnswersLogon(s)
  \/ AnswerRead
  \/ \E s \in 1..Len(sockets) : TransportClose(s)
  \/ \E s \in 1..Len(sockets) : TransportErrorClose(s)

\* Every connection attempt that stays connecting opens, the server answers
\* every logon, and a started read completes.
Fairness ==
  /\ \A s \in 1..MaxSockets : WF_vars(Opens(s))
  /\ \A s \in 1..MaxSockets : WF_vars(ServerAnswersLogon(s))
  /\ WF_vars(AnswerRead)

SpecLive == Init /\ [][NextLive]_vars /\ Fairness

----------------------------------------------------------------------------
\* The tasks of a component that uses useWebSocket. React runs the effects
\* of a commit before the next commit, so a handler that sets state waits
\* for the effects that are due.

\* Everything but the useWebSocket hook.
clientVars ==
  <<instance, socket, isLoggedIn, isUserLogout, subscribed, sockets, wire,
    pending, phase, messageQueue, message, forwarded, enqueued, dropped,
    rejected, loggedOffs, nextId, nFrames, userClosed, closeCalls, objects,
    handles, ctorInits, sendResult>>

\* The effects that are due run.
UwsEffects ==
  /\ uwsEffectsDue(uws)
  /\ uws' = uwsEffects(uws)
  /\ UNCHANGED clientVars

\* The component calls the sendMessage of its current render.
UwsSendMessage ==
  /\ uws.nMsgs < MaxMsgs
  /\ uws' = [uwsSendMessage(uws, uws.socket, AppMsg(uws.nMsgs + 1))
               EXCEPT !.nMsgs = @ + 1]
  /\ UNCHANGED clientVars

\* The open event of the k-th WebSocket.
UwsOpen(k) ==
  /\ ~uwsEffectsDue(uws)
  /\ uws.wss[k].readyState = "CONNECTING"
  /\ uws' = uwsOnOpen([uws EXCEPT !.wss[k].readyState = "OPEN"], k)
  /\ UNCHANGED clientVars

\* A message event of the k-th WebSocket: ws.onmessage starts and suspends
\* at the await.
UwsMessage(k) ==
  /\ uws.wss[k].readyState = "OPEN"
  /\ uws.nFrames < MaxFrames
  /\ uws' = [uws EXCEPT !.nFrames = @ + 1,
                         !.pending = @ \cup {[n |-> uws.nFrames + 1, sock |-> k]}]
  /\ UNCHANGED clientVars

\* The read of a frame's data completes and its handler resumes on frame f.
UwsResume(p, f) ==
  /\ ~uwsEffectsDue(uws)
  /\ uws' = uwsOnMessage([uws EXCEPT !.pending = @ \ {p}],
                         [n |-> p.n, sock |-> p.sock, frame |-> f])
  /\ UNCHANGED clientVars

\* The close event of the k-th WebSocket.
UwsClose(k) ==
  /\ ~uwsEffectsDue(uws)
  /\ uws.wss[k].readyState # "CLOSED"
  /\ Len(uws.wss) < MaxSockets
  /\ uws' = uwsOnClose([uws EXCEPT !.wss[k].readyState = "CLOSED"], k)
  /\ UNCHANGED clientVars

NextUws ==
  \/ UwsEffects
  \/ UwsSendMessage
  \/ \E k \in 1..Len(uws.wss) : UwsOpen(k)
  \/ \E k \in 1..Len(uws.wss) : UwsMessage(k)
  \/ \E p \in uws.pending, f \in InboundFrames : UwsResume(p, f)
  \/ \E k \in 1..Len(uws.wss) : UwsClose(k)

SpecUws == Init /\ [][NextUws]_vars

TypeOK ==
  /\ instance \in 0..objects
  /\ socket \in 0..Len(sockets)
  /\ Len(sockets) <= MaxSockets
  /\ \A s \in 1..Len(sockets) : sockets[s].readyState \in ReadyStates
  /\ Cardinality(pending) <= MaxFrames

----------------------------------------------------------------------------
\* Vocabulary of the properties

\* The ids of a sequence of application messages.
Ids(q) == [i \in 1..Len(q) |-> q[i].id]

Range(q) == {q[i] : i \in 1..Len(q)}

\* The wire entries added by a step.
NewOnWire == {i \in 1..Len(wire') : i > Len(wire)}

\* The close event of socket s is dispatched in this step.
CloseEvent(s) ==
  sockets[s].readyState # "CLOSED" /\ sockets'[s].readyState = "CLOSED"

\* The open event of socket s is dispatched in this step.
OpenEvent(s) ==
  sockets[s].readyState = "CONNECTING" /\ sockets'[s].readyState = "OPEN"

\* The suspended handler p resumes in this step.
Resumed(p) == p \in pending /\ pending' = pending \ {p}

\* A logon result with resultCode 0 is processed in this step.
LogonAccepted ==
  \E s \in 1..Len(sockets) : ~sockets[s].logonOk /\ sockets'[s].logonOk

Closing(sk) == sk.readyState \in {"CLOSING", "CLOSED"}

\* The session is authenticated as the client reports it: the flag is set and
\* the current connection is open.
Authenticated ==
  isLoggedIn /\ socket # 0 /\ sockets[socket].readyState = "OPEN"

\* The component submits a message in this step.
Submitted == nextId' = nextId + 1

\* The flush effect of the re-render runs in this step.
EffectFlushes == phase = "rerendered" /\ phase' = "settled"

\* close() is called in this step.
CloseCalled == closeCalls' = closeCalls + 1

----------------------------------------------------------------------------
\* C1: no application message is passed to socket.send on a connection on
\* which no logon result with resultCode 0 has been received yet.
C1_NoAppMessageBeforeLogonResult ==
  [][\A i \in NewOnWire :
       IsAppBytes(wire'[i].bytes) => sockets[wire'[i].sock].logonOk]_vars

\* C2: processing a logon result with resultCode 0 hands every queued message
\* to the transport and leaves the queue empty. (Stated for the component
\* whose effects have all run: no later effect is left to do the flush.)
C2_LogonResultFlushesQueue ==
  [][(LogonAccepted /\ phase = "settled") =>
       /\ messageQueue' = <<>>
       /\ \A i \in 1..Len(messageQueue) :
            \E j \in NewOnWire : wire'[j].bytes = encode(messageQueue[i])]_vars

\* C3: the queued messages that reached the transport, followed by the
\* messages still queued, are the messages that were queued, in the order of
\* their submission and each once.
FlushedIds ==
  LET apps == SelectSeq(wire, LAMBDA w : IsAppBytes(w.bytes) /\ w.bytes[3] \in Range(enqueued))
  IN [i \in 1..Len(apps) |-> apps[i].bytes[3]]

C3_QueueOrderKept == FlushedIds \o Ids(messageQueue) = enqueued

C3_Witness ==
  /\ phase = "settled"
  /\ enqueued = <<1, 2>>
  /\ messageQueue = <<>>
  /\ FlushedIds = <<1, 2>>

\* C4: on every connection that has opened, the logon message was the first
\* payload passed to socket.send.
C4_LogonFirst ==
  \A s \in 1..Len(sockets) :
    /\ sockets[s].readyState = "OPEN" => sent(s) # <<>>
    /\ sent(s) # <<>> => IsLogonBytes(sent(s)[1].bytes)

C4_Witness ==
  /\ Len(sockets) = 2
  /\ Len(sent(1)) >= 1
  /\ Len(sent(2)) >= 2
  /\ IsLogonBytes(sent(2)[1].bytes)
  /\ IsAppBytes(sent(2)[2].bytes)

\* C5: once the user has called close(), no new connection is created.
C5_NoConnectionAfterUserClose ==
  [][userClosed => Len(sockets') = Len(sockets)]_vars

\* C6: the task of an unexpected close while authenticated, with or without
\* an error event before the close event, creates exactly one new connection,
\* which becomes the current one.
C6_OneReconnectPerClose ==
  [][\A s \in 1..Len(sockets) :
       (CloseEvent(s) /\ sockets[s].closedBy = "none" /\ isLoggedIn /\ ~isUserLogout)
         => /\ Len(sockets') = Len(sockets) + 1
            /\ socket' = Len(sockets')
            /\ sockets'[socket'] = NewSocket]_vars

C6_Witness ==
  /\ Len(sockets) = 2
  /\ sockets[1].readyState = "CLOSED"
  /\ sockets[1].closedBy = "none"
  /\ sockets[1].logonOk
  /\ socket = 2

\* C7: an unexpected close, its reconnect and the open of the new connection
\* leave the outbound queue as it was.
C7_CloseKeepsQueue ==
  [][\A s \in 1..Len(sockets) :
       ((CloseEvent(s) /\ sockets[s].closedBy = "none") \/ (OpenEvent(s) /\ s > 1))
         => messageQueue' = messageQueue]_vars

C7_Witness ==
  /\ Len(sockets) = 2
  /\ sockets[1].readyState = "CLOSED"
  /\ sockets[1].closedBy = "none"
  /\ sockets[2].readyState = "OPEN"
  /\ Len(messageQueue) = 2

\* C8: processing a logon result with a non-zero resultCode leaves the
\* connection it came on, and the current connection, closing or closed, and
\* hands nothing to the transport: the queue and the wire are as before.
C8_LogonFailureClosesWithoutFlush ==
  [][\A p \in pending :
       (Resumed(p) /\ p.n \in rejected')
         => /\ Closing(sockets'[p.sock])
            /\ socket' # 0 => Closing(sockets'[socket'])
            /\ wire' = wire
            /\ messageQueue' = messageQueue]_vars

C8_Witness ==
  /\ rejected # {}
  /\ socket # 0
  /\ sockets[socket].readyState = "CLOSING"
  /\ sockets[socket].closedBy = "logonFail"
  /\ Len(messageQueue) > 0
  /\ \A i \in 1..Len(wire) : IsLogonBytes(wire[i].bytes)

\* C9: the close event of a connection that a logon rejection closed creates
\* no new connection.
C9_NoReconnectAfterLogonFailure ==
  [][\A s \in 1..Len(sockets) :
       (CloseEvent(s) /\ sockets[s].closedBy = "logonFail")
         => Len(sockets') = Len(sockets)]_vars

\* C10: a frame that fails to decode changes nothing of the session and is not
\* forwarded; a frame that decodes is forwarded to the subscriber, whatever
\* was dropped before it.
C10_DecodeFailureIsLocal ==
  [][\A p \in pending :
       Resumed(p) =>
         IF p.n \in dropped'
         THEN UNCHANGED <<socket, sockets, isLoggedIn, isUserLogout, wire,
                          messageQueue, message, forwarded>>
         ELSE subscribed => (forwarded' = Append(forwarded, p.n) /\ message' = p.n)]_vars

C10_Witness ==
  /\ dropped = {1}
  /\ forwarded = <<2>>
  /\ message = 2
  /\ socket = 1
  /\ sockets[1].readyState = "OPEN"
  /\ sockets[1].logonOk

\* C12: every frame that decodes is forwarded to the subscriber once, at the
\* resumption of its own handler and whatever its content; nothing else is
\* forwarded.
C12_DecodedFrameForwardedOnce ==
  [][/\ \A p \in pending :
          (Resumed(p) /\ subscribed /\ p.n \notin dropped')
            => forwarded' = Append(forwarded, p.n)
     /\ forwarded' # forwarded =>
          \E p \in pending : /\ Resumed(p)
                             /\ p.n \notin Range(forwarded)
                             /\ forwarded' = Append(forwarded, p.n)]_vars

C12_Witness ==
  /\ rejected = {1}
  /\ loggedOffs = {2}
  /\ forwarded = <<1, 2>>

\* C13: a message submitted while the hook has no client or the session is
\* not authenticated is appended to the queue and nothing else changes; one
\* submitted while authenticated goes to the current connection at once and
\* the queue is left alone.
C13_SendMessageQueuesOrTransmits ==
  [][Submitted =>
       LET m == AppMsg(nextId + 1) IN
       IF wsClient /\ Authenticated
       THEN /\ wire' = Append(wire, [sock |-> socket, bytes |-> encode(m)])
            /\ messageQueue' = messageQueue
       ELSE /\ messageQueue' = Append(messageQueue, m)
            /\ UNCHANGED <<instance, socket, isLoggedIn, isUserLogout,
                           subscribed, sockets, wire, pending, message,
                           forwarded, dropped, rejected, loggedOffs>>]_vars

C13_Witness ==
  /\ enqueued = <<1>>
  /\ messageQueue = <<AppMsg(1)>>
  /\ \E i \in 1..Len(wire) : wire[i].bytes = encode(AppMsg(2))

\* C15: at most one connection is not closed, a connecting or open one is
\* the one the client holds, and a connection is created only when every
\* earlier one is closed.
C15_AtMostOneLiveTransport ==
  /\ Cardinality({s \in 1..Len(sockets) : sockets[s].readyState # "CLOSED"}) <= 1
  /\ \A s \in 1..Len(sockets) :
       sockets[s].readyState \in {"CONNECTING", "OPEN"} => socket = s

C15_Witness ==
  /\ Len(sockets) = 2
  /\ sockets[1].closedBy = "user"
  /\ sockets[2].closedBy = "logonFail"
  /\ sockets[2].readyState = "CLOSING"

\* C17: frames are forwarded to the subscriber in the order of their
\* delivery.
C17_InboundOrderKept ==
  \A i, j \in 1..Len(forwarded) : i < j => forwarded[i] < forwarded[j]

\* C18: while the client holds a connection that replaced one the transport
\* closed, and no logon result with resultCode 0 has come on it, isLoggedIn
\* is false.
C18_NotAuthenticatedUntilLogonResult ==
  \A s \in 2..Len(sockets) :
    (socket = s /\ sockets[s - 1].closedBy = "none" /\ ~sockets[s].logonOk)
      => ~isLoggedIn

\* C19: processing a logged-off notice forwards it to the subscriber and
\* changes nothing of the session: no connection is closed or created and
\* isLoggedIn keeps its value.
C19_LoggedOffIsInformational ==
  [][\A p \in pending :
       (Resumed(p) /\ p.n \in loggedOffs' \ loggedOffs) =>
         /\ UNCHANGED <<socket, sockets, isLoggedIn, isUserLogout, wire,
                        messageQueue>>
         /\ subscribed => forwarded' = Append(forwarded, p.n)]_vars

C19_Witness ==
  /\ loggedOffs = {2}
  /\ forwarded = <<1, 2>>
  /\ isLoggedIn
  /\ socket = 1
  /\ sockets[1].readyState = "OPEN"
  /\ sockets[1].logonOk

\* C11: close() called when the client holds no connection, or one that is
\* already closing or closed, closes nothing again, creates no connection and
\* changes nothing else of the session; the handle is dropped.
C11_CloseIsIdempotent ==
  [][(CloseCalled /\ (socket = 0 \/ Closing(sockets[socket]))) =>
       /\ sockets' = sockets
       /\ socket' = 0
       /\ UNCHANGED <<instance, isLoggedIn, isUserLogout, subscribed, wire,
                      pending, sendResult>>]_vars

C11_Witness ==
  /\ closeCalls = 2
  /\ Len(sockets) = 1
  /\ sockets[1].readyState = "CLOSING"
  /\ sockets[1].closedBy = "user"
  /\ wire = <<>>
  /\ socket = 0

\* C14: a direct call of send hands the encoded message to the current
\* connection and returns nothing if that connection is OPEN; in every other
\* case it returns a ConnectionNotReadyError value and changes nothing. No
\* step hands a payload to a connection that is not OPEN.
C14_SendOnlyWhenOpen ==
  [][/\ Submitted =>
          LET m == AppMsg(nextId + 1) IN
          IF socket # 0 /\ sockets[socket].readyState = "OPEN"
          THEN /\ wire' = Append(wire, [sock |-> socket, bytes |-> encode(m)])
               /\ sendResult' = "undefined"
               /\ UNCHANGED <<socket, sockets, isLoggedIn, messageQueue>>
          ELSE /\ sendResult' = "ConnectionNotReadyError"
               /\ UNCHANGED <<instance, socket, sockets, isLoggedIn,
                              isUserLogout, subscribed, wire, pending,
                              messageQueue, closeCalls>>
     /\ \A i \in NewOnWire : sockets'[wire'[i].sock].readyState = "OPEN"]_vars

C14_Witness ==
  /\ nextId = 2
  /\ \E i \in 1..Len(wire) : wire[i].bytes = encode(AppMsg(1))
  /\ \A i \in 1..Len(wire) : wire[i].bytes # encode(AppMsg(2))
  /\ sendResult = "ConnectionNotReadyError"
  /\ socket # 0
  /\ sockets[socket].readyState = "CLOSING"

\* C20: every getInstance() call and every new WebSocketClient() returned the
\* same object, the one in WebSocketClient.instance, and the constructor has
\* called initSocket once however many objects were allocated.
C20_OneInstanceOneInitialConnection ==
  /\ Cardinality(handles) <= 1
  /\ ctorInits <= 1
  /\ objects > 0 => (instance # 0 /\ handles = {instance} /\ ctorInits = 1)

C20_Witness ==
  /\ objects = 2
  /\ handles = {1}
  /\ ctorInits = 1
  /\ Len(sockets) = 1

\* The client holds an open connection later than s on which the logon was
\* sent and accepted, and reports itself logged in.
ReauthenticatedAfter(s) ==
  \E t \in 1..Len(sockets) :
    /\ t > s
    /\ socket = t
    /\ sockets[t].readyState = "OPEN"
    /\ \E i \in 1..Len(wire) : wire[i] = [sock |-> t, bytes |-> encode(LogonMsg)]
    /\ sockets[t].logonOk
    /\ isLoggedIn

\* C16: when connection attempts open and the server accepts every logon, a
\* connection the transport closed leads to a later connection that is open,
\* has carried the logon and on which the logon was accepted.
C16_ReconnectsAndReauthenticates ==
  \A s \in 1..MaxSockets :
    (s <= Len(sockets) /\ sockets[s].readyState = "CLOSED"
       /\ sockets[s].closedBy = "none")
      ~> ReauthenticatedAfter(s)

C16_Witness ==
  /\ Len(sockets) = 2
  /\ sockets[1].readyState = "CLOSED"
  /\ sockets[1].closedBy = "none"
  /\ sockets[1].logonOk
  /\ ReauthenticatedAfter(1)

\* C24: no application message is on the wire while a message submitted
\* before it is still in the queue. (Stated for the component whose effects
\* have all run: no effect is left that would still flush the queue.)
C24_SubmissionOrderKept ==
  phase = "settled" =>
    \A i \in 1..Len(wire), k \in 1..Len(messageQueue) :
      IsAppBytes(wire[i].bytes) => wire[i].bytes[3] < messageQueue[k].id

\* C25: the handler of a frame that came on a connection which has since
\* been closed and replaced leaves the connection the client now holds and
\* its isLoggedIn as they were.
C25_LogonResultStaysOnItsConnection ==
  [][\A p \in pending :
       (/\ Resumed(p)
        /\ sockets[p.sock].readyState = "CLOSED"
        /\ socket # 0 /\ socket # p.sock)
         => /\ sockets'[socket] = sockets[socket]
            /\ (~sockets[socket].logonOk => isLoggedIn' = isLoggedIn)]_vars

\* C26: every message given to sendMessage so far is in the queue or was
\* handed to a connection.
C26_NoMessageLost ==
  \A id \in 1..nextId :
    \/ \E k \in 1..Len(messageQueue) : messageQueue[k] = AppMsg(id)
    \/ \E i \in 1..Len(wire) : wire[i].bytes = encode(AppMsg(id))

C26_Witness ==
  /\ nextId = 2
  /\ enqueued = <<1, 2>>
  /\ messageQueue = <<AppMsg(2)>>
  /\ \E i \in 1..Len(wire) : wire[i].bytes = encode(AppMsg(1))

\* C27: the flush effect that starts with the session ready and n messages
\* queued hands exactly these n messages to the current connection, in queue
\* order, pushes nothing and leaves the queue empty.
C27_DequeueLoopDrainsQueue ==
  [][(EffectFlushes /\ Authenticated /\ Len(messageQueue) > 0) =>
       /\ messageQueue' = <<>>
       /\ enqueued' = enqueued
       /\ Len(wire') = Len(wire) + Len(messageQueue)
       /\ SubSeq(wire', Len(wire) + 1, Len(wire')) =
            [i \in 1..Len(messageQueue) |->
               [sock |-> socket, bytes |-> encode(messageQueue[i])]]]_vars

C27_Witness ==
  /\ phase = "settled"
  /\ messageQueue = <<>>
  /\ Len(wire) = 3
  /\ wire[2] = [sock |-> 1, bytes |-> encode(AppMsg(1))]
  /\ wire[3] = [sock |-> 1, bytes |-> encode(AppMsg(2))]

\* The payloads the useWebSocket hook handed to its k-th WebSocket, in order.
uwsSent(k) == SelectSeq(uws.wire, LAMBDA w : w.sock = k)

\* C21: on no WebSocket of the useWebSocket hook is the first payload an
\* application message that had been queued: the logon goes ahead of it.
C21_UwsLogonFirst ==
  \A k \in 1..Len(uws.wss) :
    uwsSent(k) # <<>> =>
      ~(IsAppBytes(uwsSent(k)[1].bytes) /\ uwsSent(k)[1].bytes[3] \in uws.enqueued)

\* C22: the useWebSocket hook hands an application message only to a
\* WebSocket on which a logon result with resultCode 0 has been processed.
C22_UwsNoAppMessageBeforeLogonResult ==
  [][\A i \in 1..Len(uws'.wire) :
       (i > Len(uws.wire) /\ IsAppBytes(uws'.wire[i].bytes))
         => uws.wss[uws'.wire[i].sock].logonOk]_vars

\* C23: the step of the useWebSocket hook that processes a logged-off
\* notice leaves every WebSocket as it was.
C23_UwsLoggedOffOnlyLogged ==
  [][\A p \in uws.pending :
       (p \notin uws'.pending /\ p.n \in uws'.loggedOffs \ uws.loggedOffs)
         => uws'.wss = uws.wss]_vars
====
